---- MODULE Spec2Model ----
(***************************************************************************)
(* Model of the continuous acquisition program                             *)
(* src/src/data_aquisition/ADHAT_c_subroutine_NO_SOCKET.c:                 *)
(* the producer (main's acquisition loop and GET_DATA), the writer thread  *)
(* (writer_thread_func and SAVE_OUTPUT), the SIGINT handler, and the       *)
(* mutex / condition variable that hand full buffers from one to the other.*)
(*                                                                         *)
(* Buffers are indexed 1 (bufferA) and 2 (bufferB), as buffer_to_write and *)
(* current_buffer index them in the source.  A timestamp is abstracted to  *)
(* the number of the sweep (buffer fill) in which it was taken; rows are   *)
(* indexed 1..nrows (row_index + 1).                                       *)
(***************************************************************************)
EXTENDS Integers, Sequences, FiniteSets, TLC

\* ---------------------------------------------------------------- bounds
\* Largest row count (argv[1]) explored.
MaxRows == 2
\* Number of sweeps the producer may start before the model stops it.
MaxSweeps == 3
\* Largest number of characters of a command-line argument explored.
MaxArgLen == 2
\* Number of cycles the orchestrator script may start.
MaxCycles == 3
\* Clock ticks in a second, and the number of ticks a timed run may last.
TicksPerSecond == 2
MaxTicks == 6

\* ------------------------------------------------------ program constants
STATE2_MAX_SWEEPS == 3
\* The switch state whose detection is counted (GET_DATA: state == 2).
TRANSITION_STATE == 2

\* Sweep configuration, MHz (whole numbers, which a double holds exactly).
FREQ_MIN == 650
FREQ_MAX == 850
FREQ_STEP == 2
TOTAL_STEPS == ((FREQ_MAX - FREQ_MIN) \div FREQ_STEP) + 1

\* The calibration program's sweep configuration (filterSweep.c, lines
\* 22-25), in tenths of a MHz: 900.0 to 960.0 MHz by 0.2 MHz, 301 steps.
CAL_FREQ_MIN == 9000
CAL_FREQ_MAX == 9600
CAL_FREQ_STEP == 2
CAL_TOTAL_STEPS == ((CAL_FREQ_MAX - CAL_FREQ_MIN) \div CAL_FREQ_STEP) + 1

\* ------------------------------------------------------ switch-state decoding
\* An ADC reading is modelled in units of 0.1 V on the positive half of the
\* range: ADC_HALF stands for 2147483648 counts (5 V; the sign bit), and a
\* reading is a number in 0 .. 2 * ADC_HALF - 1.  Voltages are in tenths of
\* a volt.
ADC_HALF == 50

\* READ_SWITCH_STATE, lines 217-222: the voltage of a reading,
\* 5 * 2 - value / 2147483648.0 * 5 when bit 31 is set and
\* value / 2147483647.8 * 5 otherwise, in tenths of a volt.
Voltage(value) ==
    IF value \div ADC_HALF = 1
    THEN 5 * 2 * 10 - (value * 5 * 10) \div ADC_HALF
    ELSE (value * 5 * 10) \div ADC_HALF

\* Mutant of OnOrOff: a voltage of exactly 3.0 V counts as low.
OnOrOff_HighAbove(vlt) == IF vlt <= 3 * 10 THEN 0 ELSE 1

\* READ_SWITCH_STATE, line 225: int on_or_off = (vlt < 3) ? 0 : 1
OnOrOff(vlt) == IF vlt < 3 * 10 THEN 0 ELSE 1

\* Mutant of BitWeight: channel 7 is the most significant bit.
BitWeight_Reversed(i) == 2 ^ (9 - i)

\* READ_SWITCH_STATE, line 228: exp2(i - 7)
BitWeight(i) == 2 ^ (i - 7)

\* READ_SWITCH_STATE, lines 212-232: the loop over channels i = 7, 8, 9,
\* with values[i - 6] the reading of channel i and st the state so far.
RECURSIVE ReadPins(_, _, _)
ReadPins(values, i, st) ==
    IF i < 10
    THEN ReadPins(values, i + 1,
                  st + OnOrOff(Voltage(values[i - 6])) * BitWeight(i))
    ELSE st

\* READ_SWITCH_STATE, lines 209-237, for the readings of channels 7, 8, 9.
READ_SWITCH_STATE(values) == ReadPins(values, 7, 0)

\* The readings of channels 7, 8, 9 with the switch on the antenna: 4.0 V
\* on channel 7 only (state 1).
AntennaReading == <<40, 10, 10>>

\* The readings the switch presents while the acquisition loop is modelled:
\* the antenna position, and 4.0 V on channel 8 only (state 2, the
\* transition state).
LoopReadings == {AntennaReading, <<10, 40, 10>>}

\* The readings explored for the decoding on its own: both halves of the
\* range, and the readings next to and at 3.0 V on each half.
Readings == {0, 10, 29, 30, 40, 50, 70, 71, 99}
Buffers == {1, 2}

\* ------------------------------------------------- command-line arguments
\* An argument is a sequence of characters.  The characters explored: a
\* sign, two digits and a character atoi stops at.
ArgChars == {"-", "0", "2", "x"}

ArgStrings == UNION {[1..k -> ArgChars] : k \in 0..MaxArgLen}

\* The positional arguments argv[1..argc-1] explored: none to three of them.
ArgVectors == UNION {[1..k -> ArgStrings] : k \in 0..3}

DigitChars == <<"0", "1", "2", "3", "4", "5", "6", "7", "8", "9">>

IsDigit(c) == \E d \in 1..10 : DigitChars[d] = c

DigitValue(c) == (CHOOSE d \in 1..10 : DigitChars[d] = c) - 1

\* atoi's digit loop: the value of the longest prefix of digits, after acc.
RECURSIVE AtoiDigits(_, _)
AtoiDigits(str, acc) ==
    IF str = <<>> \/ ~IsDigit(Head(str))
    THEN acc
    ELSE AtoiDigits(Tail(str), acc * 10 + DigitValue(Head(str)))

\* atoi (lines 731, 740, 746): an optional sign, then the digits up to the
\* first other character; 0 when there is no digit.
Atoi(str) ==
    IF str # <<>> /\ Head(str) = "-"
    THEN 0 - AtoiDigits(Tail(str), 0)
    ELSE AtoiDigits(str, 0)

\* The decimal text of a natural number.
RECURSIVE Decimal(_)
Decimal(n) ==
    IF n < 10 THEN <<DigitChars[n + 1]>>
    ELSE Decimal(n \div 10) \o <<DigitChars[(n % 10) + 1]>>

\* The documented invocation, bin/acq 101 648 850, for a row count n.
Invocation(n) == <<Decimal(n), <<"6", "4", "8">>, <<"8", "5", "0">>>>

\* The exit status of a process that ran into the usage message: the printf
\* of line 727 has three %s conversions and one argument, which is undefined
\* behaviour; the call prints whatever it finds and main returns 1, or it
\* dereferences a bad pointer and the process dies of SIGSEGV (128 + 11).
UsageOutcomes == {1, 128 + 11}

VARIABLES
    nrows,                    \* argv[1], rows per buffer
    buffer,                   \* buffer[1] = *bufferA, buffer[2] = *bufferB
    buffer_to_write,          \* 0 = none, 1 = bufferA, 2 = bufferB
    exit_flag,
    state2_sweeps_collected,
    buffer_mutex,             \* "free", "main" or "writer"
    pcP,                      \* position of the main thread
    current_buffer, row_index, result,   \* locals of main
    pcW,                      \* position of the writer thread
    buf, filename, torn,      \* locals of writer_thread_func / SAVE_OUTPUT
    status,                   \* what SAVE_OUTPUT returned to the writer
    files,                    \* log of the files SAVE_OUTPUT has written
    sweepNo,                  \* number of the sweep being collected (the clock)
    hist,                     \* history of the run, for stating the claims
    heap,                     \* the buffers currently allocated
    hw,                       \* control lines, pigpio library and ADC driver
    exit_code,                \* "running", or the process's exit code
    LO_FREQ,                  \* tracked oscillator frequency, MHz
    gpioLog,                  \* calls made by the last INCREMENT_LO_FREQUENCY
    adc,                      \* what channels 7, 8, 9 of front-end 12 read
    state,                    \* value returned by READ_SWITCH_STATE
    console,                  \* what Handler has printed on stdout
    stamp,                    \* the STATE text STORE_METADATA wrote last
    argv,                     \* the positional arguments, argv[1..argc-1]
    sh,                       \* run_synchronized_sweep.sh and its two children
    cal,                      \* the calibration program, filterSweep.c
    clk                       \* the system clock and the names it gives

vars == <<nrows, buffer, buffer_to_write, exit_flag, state2_sweeps_collected,
          buffer_mutex, pcP, current_buffer, row_index, result,
          pcW, buf, filename, torn, status, files, sweepNo, hist,
          heap, hw, exit_code, LO_FREQ, gpioLog, adc, state, console,
          stamp, argv, sh, cal, clk>>

\* What surrounds the acquisition program: its arguments, the orchestrator
\* script, the calibration program and the system clock.
env == <<argv, sh, cal, clk>>

\* What the steps of the acquisition loop and of the writer thread, other
\* than the ones that name these variables, leave alone.
ambient == <<nrows, heap, hw, exit_code, LO_FREQ, gpioLog, adc, state,
             console, stamp, env>>

\* A row as MAKE_DATA_ARRAY's memset leaves it.  ADHAT stands for the three
\* reading arrays, FILENAME for the timestamp stored in TIME_RPI2 and
\* FILENAME; both hold the number of the sweep that stored them.
\* SWITCH_STATE (the field STATE, named after its column) holds the length
\* of the text snprintf("%d") made of the state; the text of the row stamped
\* last is in stamp.  FREQUENCY holds the text snprintf("%f") made of
\* LO_FREQ, as <<whole MHz, millionths>>; <<>> is the empty string.
ZeroRow == [ADHAT |-> 0, FILENAME |-> 0, SWITCH_STATE |-> 0,
            FREQUENCY |-> <<>>]

MAKE_DATA_ARRAY(n) == [data |-> [i \in 1..n |-> ZeroRow], sys_voltage |-> 0]

\* bufferA and bufferB before MAKE_DATA_ARRAY has returned (line 79: NULL):
\* no rows.
NoBuffer == [data |-> <<>>, sys_voltage |-> 0]

\* hist: detections = state-2 decodes so far; run = length of the current
\* unbroken run of state-2 decodes; threshFired = GET_DATA has set the exit
\* flag; threshSample = <<sweep, row>> of the iteration that did;
\* okIters = successful GET_DATA iterations since the active buffer became
\* active; handed = sweeps handed off; allState2 = every iteration of the
\* sweep being collected decoded state 2; state2Full = handed-off sweeps
\* whose rows were all taken in state 2; wokenByExit = the final signal found
\* the writer blocked; calls = INCREMENT_LO_FREQUENCY calls so far.
HistInit == [detections |-> 0, run |-> 0, threshFired |-> FALSE,
             threshSample |-> <<0, 0>>, okIters |-> 0, handed |-> {},
             state2Full |-> 0, allState2 |-> TRUE,
             wokenByExit |-> FALSE, calls |-> 0]

\* The control lines (level 0 or 1; -1 = not driven yet), the pigpio
\* library and the ADC driver before main has touched them; osc is the
\* frequency the oscillator is at (-1 = not reset yet).
HwInit == [INCREMENT |-> -1, RESET |-> -1, LO_POWER |-> -1,
           pigpio |-> "off", ads |-> "closed", osc |-> -1]

\* The hardware once main's start-up (lines 762-788) has run: both edge
\* lines idle high, the oscillator powered.
HwRunning == [INCREMENT |-> 1, RESET |-> 1, LO_POWER |-> 1,
              pigpio |-> "up", ads |-> "open", osc |-> FREQ_MIN]

\* The globals as their initialisers leave them (lines 46, 82-90), and the
\* threads' locals, for a row count n.
\* run_synchronized_sweep.sh before its first cycle (line 65): no child
\* started, neither exit code set (-1).  acq and calib tell whether the
\* child is running, astat and cstat hold the status it ended with.
ShInit == [pc |-> "top", CYCLE |-> 0, ACQ_EXIT_CODE |-> -1,
           CALIB_EXIT_CODE |-> -1, acq |-> FALSE, calib |-> FALSE,
           astat |-> -1, cstat |-> -1]

\* filterSweep.c as main is entered: the globals of lines 26 and 44, no
\* buffer, nothing saved.  saves logs the calls of SAVE_OUTPUT; exit_code -1
\* means the process is running.
CalInit == [pc |-> "start", exit_flag |-> 0, LO_FREQ |-> CAL_FREQ_MIN,
            sweep |-> 0, i |-> 0, power_dbm |-> 0, sweep_data |-> <<>>,
            saves |-> <<>>, exit_code |-> -1]

\* The system clock, in ticks, as a timed run starts, with the run's view
\* of the acquisition loop: the row to fill next, the timestamp of row 0 of
\* the active buffer, and the file names of the buffers handed off.
ClkInit == [now |-> 0, row_index |-> 0, first |-> 0, names |-> <<>>]

Globals(n) ==
    /\ nrows = n
    /\ buffer_to_write = 0
    /\ exit_flag = 0
    /\ state2_sweeps_collected = 0
    /\ buffer_mutex = "free"
    /\ current_buffer = 1
    /\ row_index = 0
    /\ result = 0
    /\ buf = 0
    /\ filename = 0
    /\ torn = FALSE
    /\ status = 0
    /\ files = <<>>
    /\ sweepNo = 1
    /\ hist = HistInit
    /\ exit_code = -1
    /\ LO_FREQ = FREQ_MIN
    /\ gpioLog = <<>>
    /\ state = 0
    /\ console = <<>>
    /\ stamp = <<>>
    /\ sh = ShInit
    /\ cal = CalInit
    /\ clk = ClkInit

\* main at line 752: the arguments were accepted and the SIGINT handler is
\* installed; nothing is allocated or initialised yet.  exit_code -1 means
\* the process is running.
Init ==
    /\ \E n \in 1..MaxRows : Globals(n) /\ argv = Invocation(n)
    /\ buffer = [b \in Buffers |-> NoBuffer]
    /\ pcP = "alloc"
    /\ pcW = "w_none"
    /\ heap = {}
    /\ hw = HwInit
    /\ adc \in LoopReadings

\* ------------------------------------------------------------ conditions
\* main, line 803: while (!exit_flag)
LoopCondition(ef) == ef = 0

\* Mutant of ThresholdReached: the comparison is strict.
ThresholdReached_Strict(c) == c > STATE2_MAX_SWEEPS

\* GET_DATA, line 351: state2_sweeps_collected >= STATE2_MAX_SWEEPS
ThresholdReached(c) == c >= STATE2_MAX_SWEEPS

\* Mutant of CountState: another state resets the counter.
CountState_Consecutive(c, st) == IF st = TRANSITION_STATE THEN c + 1 ELSE 0

\* GET_DATA, lines 343-344: if (state == 2) state2_sweeps_collected++
CountState(c, st) == IF st = TRANSITION_STATE THEN c + 1 ELSE c

\* Mutant of LoopBreak: a GET_DATA error does not end the loop.
LoopBreak_IgnoreResult(res, ef) == ef # 0

\* main, line 819: if (result != 0 || exit_flag) break;
LoopBreak(res, ef) == res # 0 \/ ef # 0

\* Mutant of BufferFull: the handoff comes one row late.
BufferFull_OneLate(r, n) == r > n

\* Mutant of BufferFull: the buffer is handed off one row early.
BufferFull_OneEarly(r, n) == r + 1 >= n

\* main, line 826: if (row_index >= nrows)
BufferFull(r, n) == r >= n

\* writer_thread_func, line 678: while (buffer_to_write == 0 && !exit_flag)
WaitPredicate(btw, ef) == btw = 0 /\ ef = 0

\* Mutant of CondSignal: the signal is not sent.
CondSignal_Lost(pw) == pw

\* pthread_cond_signal(&buffer_ready_cond): a writer blocked in
\* pthread_cond_wait is made runnable; otherwise the signal has no effect.
CondSignal(pw) == IF pw = "w_wait" THEN "w_woken" ELSE pw

\* ------------------------------------------------- oscillator frequency
\* Mutant of BelowTop: the sweep runs one step further before it wraps.
BelowTop_Inclusive(f) == f <= FREQ_MAX - FREQ_STEP

\* INCREMENT_LO_FREQUENCY, line 298: if (LO_FREQ < FREQ_MAX - FREQ_STEP)
BelowTop(f) == f < FREQ_MAX - FREQ_STEP

\* INCREMENT_LO_FREQUENCY, lines 301 and 307: the tracked frequency after
\* the call.
NextFrequency(f) == IF BelowTop(f) THEN f + FREQ_STEP ELSE FREQ_MIN

\* STORE_METADATA, line 274: snprintf(STATE, 32, "%d", state) prints the
\* decimal digits of the state, one digit for a state in 0..9.
FormatD(st) == IF st < 10 THEN <<st>> ELSE <<st \div 10, st % 10>>

\* STORE_METADATA, line 279: snprintf(FREQUENCY, 32, "%f", LO_FREQ) prints
\* the whole MHz and six decimals, which are zero for a whole number.
FormatF(f) == <<f, 0>>

\* Mutant of StampedFrequency: the row is stamped after the advance.
StampedFrequency_AfterAdvance(before, after) == after

\* GET_DATA, lines 381 and 390: STORE_METADATA is called before
\* INCREMENT_LO_FREQUENCY, so the row gets the frequency tracked before
\* the advance.
StampedFrequency(before, after) == before

GpioWrite(line, level) == [call |-> "gpioWrite", line |-> line, arg |-> level]
Usleep(us) == [call |-> "usleep", line |-> "", arg |-> us]

\* Mutant of IncrementWrites: the wrap branch also pulls the increment line
\* low after the reset settle time.
IncrementWrites_ResetThenIncrement(f) ==
    IF BelowTop(f)
    THEN <<GpioWrite("INCREMENT", 0), Usleep(500),
           GpioWrite("INCREMENT", 1), GpioWrite("RESET", 1)>>
    ELSE <<GpioWrite("RESET", 0), Usleep(2000), GpioWrite("INCREMENT", 0),
           Usleep(500),
           GpioWrite("INCREMENT", 1), GpioWrite("RESET", 1)>>

\* INCREMENT_LO_FREQUENCY, lines 298-314: the calls the function makes on
\* the control lines, in order, when the tracked frequency is f.
IncrementWrites(f) ==
    IF BelowTop(f)
    THEN <<GpioWrite("INCREMENT", 0), Usleep(500),
           GpioWrite("INCREMENT", 1), GpioWrite("RESET", 1)>>
    ELSE <<GpioWrite("RESET", 0), Usleep(2000), Usleep(500),
           GpioWrite("INCREMENT", 1), GpioWrite("RESET", 1)>>

\* The oscillator's frequency after call e made with the lines at levels
\* h (lines 300 and 305): a falling edge on the increment line moves it one
\* step on, a falling edge on the reset line takes it back to the start of
\* the sweep.
OscAfter(h, e) ==
    IF e.call = "gpioWrite" /\ e.arg = 0 /\ h[e.line] = 1
    THEN IF e.line = "RESET" THEN FREQ_MIN ELSE h.osc + FREQ_STEP
    ELSE h.osc

\* The levels of the lines, and the oscillator's frequency, after the
\* calls of log, starting from h.
RECURSIVE AfterWrites(_, _)
AfterWrites(h, log) ==
    IF log = <<>> THEN h
    ELSE LET e == Head(log)
         IN AfterWrites(IF e.call = "gpioWrite"
                        THEN [h EXCEPT ![e.line] = e.arg,
                                       !.osc = OscAfter(h, e)]
                        ELSE h,
                        Tail(log))

\* What the calls of log put on the lines, starting from levels h: an edge
\* for a write that changes a line's level, nothing for a write that does
\* not, and the waits with their length in microseconds.
RECURSIVE Signals(_, _)
Signals(h, log) ==
    IF log = <<>> THEN <<>>
    ELSE LET e == Head(log)
             rest == Signals(AfterWrites(h, <<e>>), Tail(log))
         IN IF e.call = "usleep"
            THEN <<[line |-> "", edge |-> "wait", us |-> e.arg]>> \o rest
            ELSE IF h[e.line] = e.arg THEN rest
            ELSE <<[line |-> e.line,
                    edge |-> IF e.arg = 0 THEN "falling" ELSE "rising",
                    us |-> 0]>>
                 \o rest

\* ------------------------------------------------------- signal handler
\* Handler, line 110: printf("\r\n END \r\n").  The console keeps the
\* handler's first message only, however often the signal is delivered.
HandlerOutput(out) == IF out = <<>> THEN <<"END">> ELSE out

\* Handler, lines 109-112 (installed at line 752): may run at any instant
\* from then on.
Handler ==
    /\ pcP \notin {"args", "done"}
    /\ console' = HandlerOutput(console)
    /\ exit_flag' = 1
    /\ UNCHANGED <<nrows, heap, hw, exit_code, LO_FREQ, gpioLog, adc, state,
                   stamp, env, buffer, buffer_to_write, state2_sweeps_collected,
                   buffer_mutex, pcP, current_buffer, row_index, result,
                   pcW, buf, filename, torn, status, files, sweepNo, hist>>

\* The metadata columns SAVE_OUTPUT writes for a row (lines 480-496): the
\* timestamp (TIME_RPI2 and FILENAME), the state and the frequency.
Metadata(row) ==
    [FILENAME |-> row.FILENAME, SWITCH_STATE |-> row.SWITCH_STATE,
     FREQUENCY |-> row.FREQUENCY]

\* ------------------------------------------------------- variable groups
mainLocals == <<current_buffer, row_index, result>>
writerData == <<buf, filename, torn, status, files>>
writerRest == <<pcW, buf, filename, status, files>>
writerVars == <<pcW, writerData>>

\* The writer is inside SAVE_OUTPUT(buffer b): called at line 709, not yet
\* returned.
InSaveOutput(b) == pcW = "w_write" /\ buf = b

\* A store by main into buffer b while the writer is inside SAVE_OUTPUT on
\* the same buffer is a data race: the file being written is torn.
Store(b) == torn' = (torn \/ InSaveOutput(b))

\* ------------------------------------------------------------ main: start-up
\* What start-up and teardown leave alone: the state of the acquisition
\* loop and of the writer's work.
loopState == <<buffer, buffer_to_write, exit_flag, state2_sweeps_collected,
               buffer_mutex, mainLocals, writerData, sweepNo, hist,
               console, stamp, env>>
sweepVars == <<LO_FREQ, gpioLog, adc, state>>

\* The three front-ends, by chip-select pin (INITIALIZE_ADS, lines 597-599).
FrontEnds == {12, 22, 23}

\* What start-up leaves alone besides the buffers.
loopRest == <<buffer_to_write, exit_flag, state2_sweeps_collected,
              buffer_mutex, mainLocals, writerData, sweepNo, hist,
              console, stamp, env>>

\* main, lines 754-760: both buffers are requested from MAKE_DATA_ARRAY;
\* when either allocation failed main returns 1.
AllocateBuffers ==
    /\ pcP = "alloc"
    /\ \E got \in SUBSET Buffers :
          /\ heap' = got
          /\ buffer' = [b \in Buffers |-> IF b \in got
                                           THEN MAKE_DATA_ARRAY(nrows)
                                           ELSE NoBuffer]
          /\ IF got = Buffers
             THEN pcP' = "init_ads" /\ exit_code' = exit_code
             ELSE pcP' = "done" /\ exit_code' = 1
    /\ UNCHANGED <<nrows, hw, sweepVars, loopRest, pcW>>

\* INITIALIZE_ADS, lines 588-626 (called at line 762): when
\* ADS1263_init_ADC1 fails for a front-end the function calls exit(0).
InitializeAds ==
    /\ pcP = "init_ads"
    /\ \E failed \in {0} \cup FrontEnds :
          IF failed = 0
          THEN /\ hw' = [hw EXCEPT !.ads = "open"]
               /\ pcP' = "gpio_init"
               /\ exit_code' = exit_code
          ELSE /\ hw' = hw
               /\ pcP' = "done"
               /\ exit_code' = 0
    /\ UNCHANGED <<nrows, heap, sweepVars, loopState, pcW>>

\* main, lines 764-767: gpioInitialise() < 0 makes main return 1.
GpioInitialise ==
    /\ pcP = "gpio_init"
    /\ \E ok \in BOOLEAN :
          IF ok
          THEN /\ hw' = [hw EXCEPT !.pigpio = "up"]
               /\ pcP' = "lo_setup"
               /\ exit_code' = exit_code
          ELSE /\ hw' = hw
               /\ pcP' = "done"
               /\ exit_code' = 1
    /\ UNCHANGED <<nrows, heap, sweepVars, loopState, pcW>>

\* main, lines 769-788: both edge lines idle high, the oscillator powered,
\* one reset pulse (low, then back to high).
PowerOnLo ==
    /\ pcP = "lo_setup"
    /\ hw' = [hw EXCEPT !.INCREMENT = 1, !.RESET = 1, !.LO_POWER = 1,
                         !.osc = FREQ_MIN]
    /\ pcP' = "create"
    /\ UNCHANGED <<nrows, heap, exit_code, sweepVars, loopState, pcW>>

\* main, lines 792-801: pthread_create starts writer_thread_func; main
\* enters the acquisition loop.
CreateWriter ==
    /\ pcP = "create"
    /\ pcW' = "w_lock"
    /\ pcP' = "loop"
    /\ UNCHANGED <<nrows, heap, hw, exit_code, sweepVars, loopState>>

\* --------------------------------------------------- main: acquisition loop
\* main, line 803: the loop test.  The model stops the producer once
\* MaxSweeps sweeps have been collected and no exit was requested.
LoopTest ==
    /\ pcP = "loop"
    /\ IF LoopCondition(exit_flag)
       THEN sweepNo <= MaxSweeps /\ pcP' = "sysv"
       ELSE pcP' = "sig_lock"
    /\ UNCHANGED <<ambient, buffer, buffer_to_write, exit_flag,
                   state2_sweeps_collected, buffer_mutex, mainLocals,
                   writerVars, sweepNo, hist>>

\* main, lines 809-814: the supply voltage is stored in the active buffer
\* at row 0.
ReadSystemVoltage ==
    /\ pcP = "sysv"
    /\ buffer' = IF row_index = 0
                 THEN [buffer EXCEPT ![current_buffer].sys_voltage = sweepNo]
                 ELSE buffer
    /\ IF row_index = 0 THEN Store(current_buffer) ELSE torn' = torn
    /\ pcP' = "gd_state"
    /\ UNCHANGED <<ambient, buffer_to_write, exit_flag, state2_sweeps_collected,
                   buffer_mutex, mainLocals, writerRest, sweepNo, hist>>

\* The RF switch, which an external controller moves from one position to
\* the next.  The program samples the position only in READ_SWITCH_STATE, so
\* a move at any other time shows as a move just before the next read.
SwitchMoves ==
    /\ pcP = "gd_state"
    /\ adc' \in LoopReadings \ {adc}
    /\ UNCHANGED <<nrows, heap, hw, exit_code, LO_FREQ, gpioLog, state,
                   loopState, pcP, pcW>>

\* GET_DATA, lines 334-360: validation, READ_SWITCH_STATE and the state-2
\* counter.
GetDataState ==
    /\ pcP = "gd_state"
    /\ IF row_index < 0 \/ row_index >= nrows
       THEN /\ result' = -1
            /\ pcP' = "check"
            /\ UNCHANGED <<state2_sweeps_collected, exit_flag, hist, state>>
       ELSE   LET st == READ_SWITCH_STATE(adc)
                  is2 == st = TRANSITION_STATE
                  c1 == CountState(state2_sweeps_collected, st)
                  fire == is2 /\ ThresholdReached(c1)
              IN /\ state2_sweeps_collected' = IF fire THEN 0 ELSE c1
                 /\ exit_flag' = IF fire THEN 1 ELSE exit_flag
                 /\ hist' = [hist EXCEPT
                      !.detections = IF is2 THEN @ + 1 ELSE @,
                      !.run = IF is2 THEN @ + 1 ELSE 0,
                      !.allState2 = @ /\ is2,
                      !.threshFired = @ \/ fire,
                      !.threshSample = IF fire THEN <<sweepNo, row_index + 1>>
                                               ELSE @]
                 /\ state' = st
                 /\ result' = result
                 /\ pcP' = "gd_time"
    /\ UNCHANGED <<nrows, heap, hw, exit_code, LO_FREQ, gpioLog, adc, buffer,
                   buffer_to_write, buffer_mutex, current_buffer, row_index,
                   writerVars, sweepNo, console, stamp, env>>

\* GET_DATA, lines 362-367: GET_TIME returns a timestamp or NULL.
GetTime ==
    /\ pcP = "gd_time"
    /\ \/ /\ result' = result
          /\ pcP' = "gd_collect"
       \/ /\ result' = -1
          /\ pcP' = "check"
    /\ UNCHANGED <<ambient, buffer, buffer_to_write, exit_flag,
                   state2_sweeps_collected, buffer_mutex, current_buffer,
                   row_index, writerVars, sweepNo, hist>>

\* GET_DATA, lines 373-378: COLLECT_ADC_DATA reads the three front-ends
\* into the row.
CollectAdcData ==
    /\ pcP = "gd_collect"
    /\ buffer' = [buffer EXCEPT
                    ![current_buffer].data[row_index + 1].ADHAT = sweepNo]
    /\ Store(current_buffer)
    /\ pcP' = "gd_store"
    /\ UNCHANGED <<ambient, buffer_to_write, exit_flag, state2_sweeps_collected,
                   buffer_mutex, mainLocals, writerRest, sweepNo, hist>>

\* GET_DATA, lines 380-392: STORE_METADATA stamps the row with the
\* timestamp, the state and the tracked frequency, INCREMENT_LO_FREQUENCY moves the oscillator
\* on; return 0.
StoreMetadata ==
    /\ pcP = "gd_store"
    /\ buffer' = [buffer EXCEPT
                    ![current_buffer].data[row_index + 1].FILENAME = sweepNo,
                    ![current_buffer].data[row_index + 1].SWITCH_STATE =
                        Len(FormatD(state)),
                    ![current_buffer].data[row_index + 1].FREQUENCY =
                        FormatF(StampedFrequency(LO_FREQ,
                                                 NextFrequency(LO_FREQ)))]
    /\ Store(current_buffer)
    /\ stamp' = FormatD(state)
    /\ gpioLog' = IncrementWrites(LO_FREQ)
    /\ hw' = AfterWrites(hw, IncrementWrites(LO_FREQ))
    /\ LO_FREQ' = NextFrequency(LO_FREQ)
    /\ hist' = [hist EXCEPT !.calls = @ + 1]
    /\ result' = 0
    /\ pcP' = "check"
    /\ UNCHANGED <<nrows, heap, exit_code, adc, state, buffer_to_write,
                   exit_flag, state2_sweeps_collected, buffer_mutex,
                   current_buffer, row_index, writerRest, sweepNo, console,
                   env>>

\* main, lines 819-826: break on error or exit, else advance the row.
CheckResult ==
    /\ pcP = "check"
    /\ IF LoopBreak(result, exit_flag)
       THEN /\ pcP' = "sig_lock"
            /\ UNCHANGED <<row_index, hist>>
       ELSE /\ row_index' = row_index + 1
            /\ hist' = [hist EXCEPT !.okIters = @ + 1]
            /\ pcP' = IF BufferFull(row_index + 1, nrows) THEN "ho_lock"
                                                          ELSE "loop"
    /\ UNCHANGED <<ambient, buffer, buffer_to_write, exit_flag,
                   state2_sweeps_collected, buffer_mutex, current_buffer,
                   result, writerVars, sweepNo>>

\* main, line 827: pthread_mutex_lock.
HandoffLock ==
    /\ pcP = "ho_lock"
    /\ buffer_mutex = "free"
    /\ buffer_mutex' = "main"
    /\ pcP' = "ho_set"
    /\ UNCHANGED <<ambient, buffer, buffer_to_write, exit_flag,
                   state2_sweeps_collected, mainLocals, writerVars, sweepNo,
                   hist>>

\* main, lines 828-829: mark the buffer pending and signal.
HandoffSet ==
    /\ pcP = "ho_set"
    /\ buffer_to_write' = current_buffer
    /\ pcW' = CondSignal(pcW)
    /\ hist' = [hist EXCEPT
          !.handed = @ \cup {sweepNo},
          !.state2Full = IF hist.allState2 THEN @ + 1 ELSE @]
    /\ pcP' = "ho_unlock"
    /\ UNCHANGED <<ambient, buffer, exit_flag, state2_sweeps_collected,
                   buffer_mutex, mainLocals, writerData, sweepNo>>

\* Mutant of OtherBuffer: main goes on with the buffer it handed off.
OtherBuffer_Same(b) == b

\* main, line 832: current_buffer = (current_buffer == 1) ? 2 : 1
OtherBuffer(b) == IF b = 1 THEN 2 ELSE 1

\* main, lines 830-833: unlock, swap buffers, restart at row 0.
HandoffUnlock ==
    /\ pcP = "ho_unlock"
    /\ buffer_mutex' = "free"
    /\ current_buffer' = OtherBuffer(current_buffer)
    /\ row_index' = 0
    /\ sweepNo' = sweepNo + 1
    /\ hist' = [hist EXCEPT !.okIters = 0, !.allState2 = TRUE]
    /\ pcP' = "loop"
    /\ UNCHANGED <<ambient, buffer, buffer_to_write, exit_flag,
                   state2_sweeps_collected, result, writerVars>>

\* main, line 844: pthread_mutex_lock after the loop.
ExitLock ==
    /\ pcP = "sig_lock"
    /\ buffer_mutex = "free"
    /\ buffer_mutex' = "main"
    /\ pcP' = "sig_set"
    /\ UNCHANGED <<ambient, buffer, buffer_to_write, exit_flag,
                   state2_sweeps_collected, mainLocals, writerVars, sweepNo,
                   hist>>

\* main, lines 845-846: exit_flag = 1; pthread_cond_signal.
ExitSignal ==
    /\ pcP = "sig_set"
    /\ exit_flag' = 1
    /\ pcW' = CondSignal(pcW)
    /\ hist' = [hist EXCEPT !.wokenByExit = @ \/ pcW = "w_wait"]
    /\ pcP' = "sig_unlock"
    /\ UNCHANGED <<ambient, buffer, buffer_to_write, state2_sweeps_collected,
                   buffer_mutex, mainLocals, writerData, sweepNo>>

\* main, line 847: pthread_mutex_unlock.
ExitUnlock ==
    /\ pcP = "sig_unlock"
    /\ buffer_mutex' = "free"
    /\ pcP' = "join"
    /\ UNCHANGED <<ambient, buffer, buffer_to_write, exit_flag,
                   state2_sweeps_collected, mainLocals, writerVars, sweepNo,
                   hist>>

\* Mutant of JoinReturns: main does not wait for the writer.
JoinReturns_NoWait(pw) == TRUE

\* pthread_join, line 850: returns once writer_thread_func has returned.
JoinReturns(pw) == pw = "w_done"

\* main, line 850: pthread_join(writer_thread).
Join ==
    /\ pcP = "join"
    /\ JoinReturns(pcW)
    /\ pcP' = "free"
    /\ UNCHANGED <<ambient, buffer, buffer_to_write, exit_flag,
                   state2_sweeps_collected, buffer_mutex, mainLocals,
                   writerVars, sweepNo, hist>>

\* ----------------------------------------------------------- main: teardown
\* main, lines 855-856: FREE_DATA_ARRAY on both buffers.
FreeBuffers ==
    /\ pcP = "free"
    /\ heap' = {}
    /\ pcP' = "cl_lines"
    /\ UNCHANGED <<nrows, hw, exit_code, sweepVars, loopState, pcW>>

\* CLEANUP_AND_SHUTDOWN, lines 647-649 (called at line 862): both edge
\* lines back to idle high.
ResetLines ==
    /\ pcP = "cl_lines"
    /\ hw' = [hw EXCEPT !.INCREMENT = 1, !.RESET = 1]
    /\ pcP' = "cl_power"
    /\ UNCHANGED <<nrows, heap, exit_code, sweepVars, loopState, pcW>>

\* CLEANUP_AND_SHUTDOWN, lines 653-654: the oscillator board is powered
\* down.
PowerDownLo ==
    /\ pcP = "cl_power"
    /\ hw' = [hw EXCEPT !.LO_POWER = 0]
    /\ pcP' = "cl_term"
    /\ UNCHANGED <<nrows, heap, exit_code, sweepVars, loopState, pcW>>

\* CLEANUP_AND_SHUTDOWN, line 658: gpioTerminate().
GpioTerminate ==
    /\ pcP = "cl_term"
    /\ hw' = [hw EXCEPT !.pigpio = "terminated"]
    /\ pcP' = "cl_close"
    /\ UNCHANGED <<nrows, heap, exit_code, sweepVars, loopState, pcW>>

\* CLEANUP_AND_SHUTDOWN, line 662, and CLOSE_GPIO, lines 628-637: the ADC
\* driver is shut down.
CloseGpio ==
    /\ pcP = "cl_close"
    /\ hw' = [hw EXCEPT !.ads = "closed"]
    /\ pcP' = "ret"
    /\ UNCHANGED <<nrows, heap, exit_code, sweepVars, loopState, pcW>>

\* main, line 868: return 0.
MainReturn ==
    /\ pcP = "ret"
    /\ exit_code' = 0
    /\ pcP' = "done"
    /\ UNCHANGED <<nrows, heap, hw, sweepVars, loopState, pcW>>

\* ------------------------------------------------------------ writer thread
mainVars == <<pcP, mainLocals>>

\* writer_thread_func, lines 675-677: a new round of the loop (the status
\* of the last SAVE_OUTPUT call is out of scope); pthread_mutex_lock.
WriterLock ==
    /\ pcW = "w_lock"
    /\ buffer_mutex = "free"
    /\ buffer_mutex' = "writer"
    /\ status' = 0
    /\ pcW' = "w_check"
    /\ UNCHANGED <<ambient, buffer, buffer_to_write, exit_flag,
                   state2_sweeps_collected, mainVars, buf, filename, torn,
                   files, sweepNo, hist>>

\* writer_thread_func, lines 678-680: the wait loop's test; waiting releases
\* the mutex.
WriterCheck ==
    /\ pcW = "w_check"
    /\ IF WaitPredicate(buffer_to_write, exit_flag)
       THEN buffer_mutex' = "free" /\ pcW' = "w_wait"
       ELSE buffer_mutex' = buffer_mutex /\ pcW' = "w_exit"
    /\ UNCHANGED <<ambient, buffer, buffer_to_write, exit_flag,
                   state2_sweeps_collected, mainVars, writerData, sweepNo,
                   hist>>

\* pthread_cond_wait, line 679: POSIX allows a wait to return without a
\* signal.
SpuriousWakeup ==
    /\ pcW = "w_wait"
    /\ pcW' = "w_woken"
    /\ UNCHANGED <<ambient, buffer, buffer_to_write, exit_flag,
                   state2_sweeps_collected, buffer_mutex, mainVars, writerData,
                   sweepNo, hist>>

\* pthread_cond_wait, line 679: a woken writer re-acquires the mutex and
\* tests the predicate again.
WriterWake ==
    /\ pcW = "w_woken"
    /\ buffer_mutex = "free"
    /\ buffer_mutex' = "writer"
    /\ pcW' = "w_check"
    /\ UNCHANGED <<ambient, buffer, buffer_to_write, exit_flag,
                   state2_sweeps_collected, mainVars, writerData, sweepNo,
                   hist>>

\* writer_thread_func, lines 681-684: if (exit_flag) { unlock; break; }
WriterExitTest ==
    /\ pcW = "w_exit"
    /\ IF exit_flag # 0
       THEN buffer_mutex' = "free" /\ pcW' = "w_done"
       ELSE buffer_mutex' = buffer_mutex /\ pcW' = "w_take"
    /\ UNCHANGED <<ambient, buffer, buffer_to_write, exit_flag,
                   state2_sweeps_collected, mainVars, writerData, sweepNo,
                   hist>>

\* Mutant of MutexAfterTake: the writer keeps the mutex while it saves.
MutexAfterTake_HeldDuringSave(owner) == owner

\* writer_thread_func, line 691: pthread_mutex_unlock, before SAVE_OUTPUT
\* is called.
MutexAfterTake(owner) == "free"

\* writer_thread_func, lines 686-696: take the pending buffer, clear the
\* marker, unlock.  At "w_save" the writer holds buf and has not yet called
\* SAVE_OUTPUT.
WriterTake ==
    /\ pcW = "w_take"
    /\ buf' = buffer_to_write
    /\ buffer_to_write' = 0
    /\ buffer_mutex' = MutexAfterTake(buffer_mutex)
    /\ pcW' = IF buffer_to_write # 0 THEN "w_save" ELSE "w_lock"
    /\ UNCHANGED <<ambient, buffer, exit_flag, state2_sweeps_collected,
                   mainVars, filename, torn, status, files, sweepNo, hist>>

\* Mutant of AfterSave: the writer calls SAVE_OUTPUT again on a failure.
AfterSave_Retry(st) == IF st # 0 THEN "w_save" ELSE "w_lock"

\* writer_thread_func, lines 709-722: whatever SAVE_OUTPUT returned, the
\* status is printed and the loop starts over.
AfterSave(st) == "w_lock"

\* writer_thread_func, line 709, and SAVE_OUTPUT, lines 402-441: the call;
\* the file is named after row 0's FILENAME and created with its table and
\* header key.  When one of the three CFITSIO calls fails SAVE_OUTPUT
\* returns its non-zero status (1 here) and nothing is written.
SaveOpen ==
    /\ pcW = "w_save"
    /\ \E st \in {0, 1} :
          IF st = 0
          THEN /\ filename' = buffer[buf].data[1].FILENAME
               /\ pcW' = "w_write"
               /\ UNCHANGED <<status, torn, buf>>
          ELSE /\ status' = st
               /\ torn' = FALSE
               /\ filename' = 0
               /\ pcW' = AfterSave(st)
               /\ buf' = IF pcW' = "w_lock" THEN 0 ELSE buf
    /\ UNCHANGED <<ambient, buffer, buffer_to_write, exit_flag,
                   state2_sweeps_collected, buffer_mutex, mainVars,
                   files, sweepNo, hist>>

\* SAVE_OUTPUT, lines 445-569: the rows are copied into the column arrays,
\* written and the file closed.  The copy is not atomic: when main stored
\* into the buffer during the call (torn), the rows written are some mix of
\* the buffer's contents during the call, and the file is marked so.  When
\* a column write fails the file is closed without the sweep and the
\* non-zero status returned; files logs, for each file written in full,
\* its name and the metadata columns of its rows.  On
\* return SAVE_OUTPUT's filename is gone, and so is the writer's buf when
\* the loop starts over.
SaveWrite ==
    /\ pcW = "w_write"
    /\ \E st \in {0, 1} :
          /\ status' = st
          /\ files' = IF st = 0
                       THEN Append(files,
                              [name |-> filename,
                               rows |-> [i \in 1..nrows |->
                                           Metadata(buffer[buf].data[i])],
                               torn |-> torn])
                       ELSE files
          /\ pcW' = AfterSave(st)
          /\ buf' = IF pcW' = "w_lock" THEN 0 ELSE buf
    /\ torn' = FALSE
    /\ filename' = 0
    /\ UNCHANGED <<ambient, buffer, buffer_to_write, exit_flag,
                   state2_sweeps_collected, buffer_mutex, mainVars,
                   sweepNo, hist>>

Next ==
    \/ Handler \/ SwitchMoves
    \/ AllocateBuffers \/ InitializeAds \/ GpioInitialise \/ PowerOnLo
    \/ CreateWriter
    \/ LoopTest \/ ReadSystemVoltage \/ GetDataState \/ GetTime
    \/ CollectAdcData \/ StoreMetadata \/ CheckResult
    \/ HandoffLock \/ HandoffSet \/ HandoffUnlock
    \/ ExitLock \/ ExitSignal \/ ExitUnlock \/ Join
    \/ FreeBuffers \/ ResetLines \/ PowerDownLo \/ GpioTerminate
    \/ CloseGpio \/ MainReturn
    \/ WriterLock \/ WriterCheck \/ SpuriousWakeup \/ WriterWake
    \/ WriterExitTest \/ WriterTake
    \/ SaveOpen \/ SaveWrite

Spec == Init /\ [][Next]_vars

\* The steps of the main thread and of the writer thread.  A spurious wakeup
\* may happen but is never owed to the writer.
MainStep ==
    \/ AllocateBuffers \/ InitializeAds \/ GpioInitialise \/ PowerOnLo
    \/ CreateWriter
    \/ LoopTest \/ ReadSystemVoltage \/ GetDataState \/ GetTime
    \/ CollectAdcData \/ StoreMetadata \/ CheckResult
    \/ HandoffLock \/ HandoffSet \/ HandoffUnlock
    \/ ExitLock \/ ExitSignal \/ ExitUnlock \/ Join
    \/ FreeBuffers \/ ResetLines \/ PowerDownLo \/ GpioTerminate
    \/ CloseGpio \/ MainReturn

WriterStep ==
    \/ WriterLock \/ WriterCheck \/ WriterWake \/ WriterExitTest
    \/ WriterTake \/ SaveOpen \/ SaveWrite

\* Fair scheduling: a thread that can run eventually runs; every hardware
\* read and every SAVE_OUTPUT call returns.
FairSpec == Spec /\ WF_vars(MainStep) /\ WF_vars(WriterStep)

\* ------------------------------------------------- argument validation
\* main on entry (line 725), started with any of the argument vectors:
\* nothing is parsed, allocated or installed yet.
ArgsInit ==
    /\ Globals(0)
    /\ argv \in ArgVectors
    /\ buffer = [b \in Buffers |-> NoBuffer]
    /\ pcP = "args"
    /\ pcW = "w_none"
    /\ heap = {}
    /\ hw = HwInit
    /\ adc = AntennaReading


\* Mutant of TrackedAfterArguments: the sweep starts at start_freq.
TrackedAfterArguments_FromStart(f, start_freq, end_freq) == start_freq

\* main, lines 740-750: start_freq and end_freq are checked to be positive
\* and not used again; LO_FREQ keeps its initialiser FREQ_MIN (line 46).
TrackedAfterArguments(f, start_freq, end_freq) == f

\* main, lines 726-750: fewer than three positional arguments print the
\* usage message; otherwise the row count, the start and the end frequency
\* are parsed with atoi in turn, and the first that is not positive makes
\* main return 1.  With all three positive main goes on to line 752.
ParseArguments ==
    /\ pcP = "args"
    /\ IF Len(argv) < 3
       THEN /\ exit_code' \in UsageOutcomes
            /\ pcP' = "done"
            /\ nrows' = nrows
       ELSE /\ nrows' = Atoi(argv[1])
            /\ IF \E i \in 1..3 : Atoi(argv[i]) <= 0
               THEN exit_code' = 1 /\ pcP' = "done"
               ELSE exit_code' = exit_code /\ pcP' = "alloc"
    /\ LO_FREQ' = IF Len(argv) < 3
                  THEN LO_FREQ
                  ELSE TrackedAfterArguments(LO_FREQ, Atoi(argv[2]),
                                             Atoi(argv[3]))
    /\ UNCHANGED <<heap, hw, gpioLog, adc, state, loopState, pcW>>

ArgsNext == ParseArguments

ArgsSpec == ArgsInit /\ [][ArgsNext]_vars

\* ------------------------------------------------- the producer on its own
\* main at the loop test for the first time, run with the row count of the
\* sweep configuration (TOTAL_STEPS rows per buffer): start-up succeeded and
\* the writer thread exists.
SweepInit ==
    /\ Globals(TOTAL_STEPS)
    /\ argv = Invocation(TOTAL_STEPS)
    /\ buffer = [b \in Buffers |-> MAKE_DATA_ARRAY(TOTAL_STEPS)]
    /\ pcP = "loop"
    /\ pcW = "w_lock"
    /\ heap = Buffers
    /\ hw = HwRunning
    /\ adc = AntennaReading

\* The steps of the acquisition loop and of the handoff: the schedule in
\* which no interrupt arrives, the switch stays on the antenna and the
\* writer thread, which writes neither the rows nor the tracked frequency,
\* has not run yet.
SweepNext ==
    \/ LoopTest \/ ReadSystemVoltage \/ GetDataState \/ GetTime
    \/ CollectAdcData \/ StoreMetadata \/ CheckResult
    \/ HandoffLock \/ HandoffSet \/ HandoffUnlock

SweepSpec == SweepInit /\ [][SweepNext]_vars

\* ------------------------------------------- READ_SWITCH_STATE on its own
\* GET_DATA about to call READ_SWITCH_STATE (line 340) on its first
\* iteration, with any three readings on channels 7, 8, 9.
DecodeInit ==
    /\ Globals(1)
    /\ argv = Invocation(1)
    /\ buffer = [b \in Buffers |-> MAKE_DATA_ARRAY(1)]
    /\ pcP = "rs_call"
    /\ pcW = "w_lock"
    /\ heap = Buffers
    /\ hw = HwRunning
    /\ adc \in Readings \X Readings \X Readings

\* READ_SWITCH_STATE, lines 209-237: the call returns the decoded state.
ReadSwitchState ==
    /\ pcP = "rs_call"
    /\ state' = READ_SWITCH_STATE(adc)
    /\ pcP' = "rs_ret"
    /\ UNCHANGED <<nrows, heap, hw, exit_code, LO_FREQ, gpioLog, adc,
                   loopState, pcW>>

DecodeNext == ReadSwitchState

DecodeSpec == DecodeInit /\ [][DecodeNext]_vars

\* ------------------------------------------------------------------ claims
\* main has left the acquisition loop (lines 842-868).
PostLoop ==
    /\ pcW # "w_none"
    /\ pcP \in {"sig_lock", "sig_set", "sig_unlock", "join", "free", "cl_lines",
                "cl_power", "cl_term", "cl_close", "ret", "done"}

\* The files of the log that are named after sweep s.
FilesNamed(s) == {k \in 1..Len(files) : files[k].name = s}

\* main is storing into buffer b: writing sys_voltage (line 813) or a row
\* (GET_DATA, lines 374-381).
MainStoring(b) ==
    /\ current_buffer = b
    /\ \/ pcP = "sysv" /\ row_index = 0
       \/ pcP \in {"gd_collect", "gd_store"}

\* C1: when the program has ended, every sweep that was handed off
\* (buffer_to_write set, condition signalled) has been written by SAVE_OUTPUT
\* exactly once.
C1_HandedOffWrittenOnce ==
    pcP = "done" => \A s \in hist.handed : Cardinality(FilesNamed(s)) = 1

\* C2: main never stores into the buffer the writer is reading inside
\* SAVE_OUTPUT.
C2_HandoffExclusive ==
    \A b \in Buffers : ~(MainStoring(b) /\ InSaveOutput(b))

\* Every row of buffer b has been collected and stamped in sweep g.
WholeSweep(b, g) ==
    \A i \in 1..nrows :
        buffer[b].data[i].ADHAT = g /\ buffer[b].data[i].FILENAME = g

\* C3: whenever the pending marker is set to a buffer, main has completed
\* nrows successful GET_DATA iterations since that buffer became the active
\* one, and every row of the buffer carries the sweep being collected.
C3_MarkedOnlyWhenFull ==
    [][(buffer_to_write' # buffer_to_write /\ buffer_to_write' # 0)
         => /\ hist.okIters = nrows
            /\ buffer_to_write' = current_buffer
            /\ WholeSweep(current_buffer, sweepNo)]_vars

\* C3 witness: a buffer of more than one row is marked pending.
C3_Witness == buffer_to_write # 0 /\ nrows > 1 /\ pcP = "ho_unlock"

\* main has left the loop while the active buffer holds rows of a sweep
\* that was cut short.
PartlyFilled ==
    /\ PostLoop
    /\ row_index < nrows
    /\ \E i \in 1..nrows : buffer[current_buffer].data[i].FILENAME = sweepNo

\* C4: once main has left the loop with the active buffer partly filled,
\* that buffer is neither marked pending nor passed to SAVE_OUTPUT.
C4_PartialBufferDiscarded ==
    [][PartlyFilled
         => /\ buffer_to_write' \in {buffer_to_write, 0}
            /\ (pcW = "w_save" /\ pcW' = "w_write") => buf # current_buffer]_vars

\* C5: when the iteration that reached the threshold took its sample
\* (GET_DATA returned 0), that row is in a file once the program has ended.
C5_TransitionSamplePreserved ==
    (pcP = "done" /\ hist.threshFired /\ result = 0)
      => \E k \in 1..Len(files) :
            files[k].rows[hist.threshSample[2]].FILENAME = hist.threshSample[1]

\* C6: GET_DATA sets the exit flag only after STATE2_MAX_SWEEPS complete
\* sweeps (full buffers whose rows were all taken in state 2) were collected.
C6_ExitAfterThreeSweeps ==
    hist.threshFired => hist.state2Full >= STATE2_MAX_SWEEPS

C9_WriterDrainsPending ==
    [][(pcW # "w_done" /\ pcW' = "w_done") => buffer_to_write = 0]_vars

\* C10: under fair scheduling, once the exit flag is set the acquisition
\* loop stops, the writer thread returns (woken if it was blocked on the
\* condition variable), pthread_join returns and main returns.  A process
\* that ended during start-up never had a writer thread.
C10_ExitFlagTerminates ==
    (exit_flag = 1) ~> (pcP = "done" /\ pcW \in {"w_none", "w_done"})

\* C10 witness: the program has ended after the final signal found the
\* writer blocked in pthread_cond_wait.
C10_Witness == pcP = "done" /\ pcW = "w_done" /\ hist.wokenByExit

\* The writer thread was created: main reached or passed the acquisition
\* loop.
WriterCreated == pcW # "w_none"

\* C11: however main left the acquisition loop, it joins the writer, then
\* frees both buffers, then returns the control lines to idle, powers the
\* oscillator down, terminates the GPIO library and shuts the ADC driver
\* down, in this order, and returns 0: each stage is reached only with the
\* earlier ones done, and no buffer is freed while the writer thread has not
\* returned.
C11_TeardownInOrder ==
    WriterCreated =>
      /\ heap # Buffers => pcW = "w_done" /\ heap = {}
      /\ hw.LO_POWER = 0 =>
            heap = {} /\ hw.INCREMENT = 1 /\ hw.RESET = 1
      /\ hw.pigpio = "terminated" => hw.LO_POWER = 0
      /\ hw.ads = "closed" => hw.pigpio = "terminated"
      /\ pcP = "done" => hw.ads = "closed" /\ exit_code = 0
      /\ exit_code # -1 => pcP = "done"

\* C11 witness: the process has ended with code 0 after a GET_DATA error
\* took main out of the loop.
C11_Witness ==
    /\ pcP = "done" /\ exit_code = 0 /\ result # 0
    /\ pcW = "w_done" /\ heap = {} /\ hw.ads = "closed"

\* C12: a process that ended without ever creating the writer thread ended
\* on a start-up failure (buffer allocation, ADC driver initialisation,
\* GPIO library initialisation) and its exit code is 1; exit code 0 is
\* produced only by the clean shutdown after the acquisition loop.
C12_StartupFailureExitsOne ==
    /\ (pcP = "done" /\ ~WriterCreated) => exit_code = 1
    /\ exit_code = 0 => (WriterCreated /\ pcW = "w_done" /\ heap = {})

\* GET_DATA has returned -1 to main because GET_TIME returned NULL, and no
\* exit was requested.
TimestampFailed == pcP = "check" /\ result # 0 /\ exit_flag = 0

\* C13 as stated: after a GET_TIME failure main goes back to the loop test
\* with the row index as it was, to run a further iteration on the same row.
C13_TimestampFailureRecoverable ==
    [][(TimestampFailed /\ pcP' # pcP)
         => (pcP' = "loop" /\ row_index' = row_index)]_vars

\* C13 as amended: a GET_TIME failure makes GET_DATA return -1 with the row
\* not stored, the frequency not advanced and the row index unchanged, and
\* main then leaves the acquisition loop for the shutdown sequence: the
\* failure ends the run.
C13_TimestampFailureEndsRun ==
    [][/\ (pcP = "gd_time" /\ pcP' = "check")
          => /\ result' = -1
             /\ buffer' = buffer
             /\ row_index' = row_index
             /\ LO_FREQ' = LO_FREQ
       /\ (pcP = "check" /\ result # 0 /\ pcP' # pcP)
          => /\ pcP' = "sig_lock"
             /\ row_index' = row_index
             /\ buffer_to_write' = buffer_to_write]_vars

\* C13 witness: main has left the loop on a GET_TIME failure alone.
C13_Witness ==
    pcP = "sig_lock" /\ result = -1 /\ exit_flag = 0 /\ hist.calls > 0

\* SAVE_OUTPUT returns a non-zero status to the writer in this step.
SaveFails == pcW \in {"w_save", "w_write"} /\ status' # 0

\* C14: when SAVE_OUTPUT fails, the writer has the status to print, goes
\* back to the top of its loop to wait for the next buffer without calling
\* SAVE_OUTPUT on that buffer again or marking it pending again, leaves the
\* exit flag alone and the process running, writes no file, and main's row
\* index, active buffer and tracked frequency are as they were.
C14_SaveFailureIsolated ==
    [][SaveFails
         => /\ pcW' = "w_lock" /\ buf' = 0
            /\ buffer_to_write' = buffer_to_write
            /\ exit_flag' = exit_flag
            /\ exit_code' = exit_code /\ exit_code = -1
            /\ files' = files
            /\ pcP' = pcP
            /\ row_index' = row_index
            /\ current_buffer' = current_buffer
            /\ LO_FREQ' = LO_FREQ]_vars

\* C14 witness: a SAVE_OUTPUT call has failed while main is collecting, and the
\* writer is back at the top of its loop with the status.
C14_Witness ==
    /\ status # 0 /\ pcW = "w_lock" /\ files = <<>>
    /\ pcP = "gd_collect" /\ exit_flag = 0 /\ hist.handed # {}

\* The number of INCREMENT_LO_FREQUENCY calls after which the tracked
\* frequency is back at FREQ_MIN.
SweepLength == (FREQ_MAX - FREQ_MIN) \div FREQ_STEP

\* INCREMENT_LO_FREQUENCY is called in this step.
IncrementCalled == hist'.calls # hist.calls

C16_ScenarioA ==
    (nrows = 101 /\ sweepNo = 1 /\ pcP = "ho_lock")
      => \A r \in 0..100 :
            buffer[1].data[r + 1].FREQUENCY = <<650 + 2 * r, 0>>

\* The edges among the signals sig, without the waits.
Edges(sig) == SelectSeq(sig, LAMBDA e : e.edge # "wait")

Falling(l) == [line |-> l, edge |-> "falling", us |-> 0]
Rising(l) == [line |-> l, edge |-> "rising", us |-> 0]

\* In sig a falling and then a rising edge on the reset line are followed
\* by a wait and then by an edge on the increment line.
ResetThenIncrement(sig) ==
    \E i, j, k, m \in 1..Len(sig) :
        /\ i < j /\ j < k /\ k < m
        /\ sig[i] = Falling("RESET")
        /\ sig[j] = Rising("RESET")
        /\ sig[k].edge = "wait"
        /\ sig[m].line = "INCREMENT"

\* C17 as stated: a call made with the tracked frequency below
\* FREQ_MAX - FREQ_STEP puts a falling and then a rising edge on the
\* increment line and no edge on the reset line; any other call puts a
\* falling and then a rising edge on the reset line, waits, puts an edge on
\* the increment line, and sets the tracked frequency to FREQ_MIN.
C17_ResetThenIncrementEdge ==
    [][IncrementCalled
         => LET sig == Signals(hw, gpioLog')
            IN IF LO_FREQ < FREQ_MAX - FREQ_STEP
               THEN Edges(sig) = <<Falling("INCREMENT"), Rising("INCREMENT")>>
               ELSE ResetThenIncrement(sig) /\ LO_FREQ' = FREQ_MIN]_vars

\* C17 as amended: a call made with the tracked frequency below
\* FREQ_MAX - FREQ_STEP pulls the increment line low, waits 500 us and
\* returns it high, with no edge on the reset line.  Any other call pulls
\* the reset line low, waits 2000 us, sets the tracked frequency to
\* FREQ_MIN, waits 500 us and returns the reset line high: it puts no edge
\* on the increment line.  Either way both lines are high on return.
C17_ResetEdgeOnly ==
    [][IncrementCalled
         => LET sig == Signals(hw, gpioLog')
            IN /\ IF LO_FREQ < FREQ_MAX - FREQ_STEP
                  THEN sig = <<Falling("INCREMENT"),
                               [line |-> "", edge |-> "wait", us |-> 500],
                               Rising("INCREMENT")>>
                  ELSE /\ sig = <<Falling("RESET"),
                                  [line |-> "", edge |-> "wait", us |-> 2000],
                                  [line |-> "", edge |-> "wait", us |-> 500],
                                  Rising("RESET")>>
                       /\ LO_FREQ' = FREQ_MIN
               /\ hw'.INCREMENT = 1 /\ hw'.RESET = 1]_vars

\* C17 witness: the call at the top of the sweep has just been made: the
\* reset line was pulled low and the frequency is back at FREQ_MIN.
C17_Witness ==
    /\ hist.calls = SweepLength
    /\ LO_FREQ = FREQ_MIN
    /\ gpioLog # <<>> /\ Head(gpioLog) = GpioWrite("RESET", 0)

\* Bit k (0, 1, 2) of a state.
BitOf(st, k) == (st \div (2 ^ k)) % 2

\* C18: for any three readings READ_SWITCH_STATE returns an integer in
\* 0..7 fixed by the readings: bit k of it is 0 when the voltage derived
\* from the reading of channel 7 + k is below 3.0 V and 1 when it is 3.0 V
\* or more.
C18_DecodingTotal ==
    pcP = "rs_ret"
      => /\ state \in 0..7
         /\ \A k \in 0..2 :
               BitOf(state, k) = IF Voltage(adc[k + 1]) >= 30 THEN 1 ELSE 0

\* C18 witness: a reading of exactly 3.0 V on channel 7 was decoded to bit
\* 1, next to a reading just below 3.0 V from the negative half of the
\* range on channel 8.
C18_Witness ==
    /\ pcP = "rs_ret"
    /\ Voltage(adc[1]) = 30 /\ Voltage(adc[2]) = 29 /\ adc[2] > ADC_HALF
    /\ state = 1

\* C19: the state is bit7 * 1 + bit8 * 2 + bit9 * 4, channel 7 being the
\* least significant bit; 1.0 V, 4.0 V, 1.0 V on channels 7, 8, 9 decode to
\* state 2, the transition state.
C19_Channel7IsLsb ==
    pcP = "rs_ret"
      => /\ state = OnOrOff(Voltage(adc[1])) * 1
                     + OnOrOff(Voltage(adc[2])) * 2
                     + OnOrOff(Voltage(adc[3])) * 4
         /\ (Voltage(adc[1]) = 10 /\ Voltage(adc[2]) = 40
               /\ Voltage(adc[3]) = 10)
              => state = 2 /\ state = TRANSITION_STATE

\* C19 witness: 1.0 V, 4.0 V, 1.0 V were decoded to state 2.
C19_Witness ==
    pcP = "rs_ret" /\ adc = <<10, 40, 10>> /\ state = 2

\* The writer is executing SAVE_OUTPUT or is about to call it with the
\* buffer it took.
WriterSaving == pcW \in {"w_save", "w_write"}

\* C20: the writer never holds buffer_mutex while it executes SAVE_OUTPUT,
\* so a handoff that finds the writer saving takes the mutex at once; and
\* the handoff is lock, set the marker and signal, unlock, after which main
\* is back at the loop test with the other buffer active and row 0 next.
C20_ProducerNeverWaitsForSave ==
    /\ [](WriterSaving => buffer_mutex # "writer")
    /\ []((WriterSaving /\ pcP = "ho_lock") => ENABLED HandoffLock)
    /\ [][/\ (pcP = "ho_lock" /\ pcP' # pcP)
             => pcP' = "ho_set" /\ buffer_mutex' = "main"
          /\ (pcP = "ho_set" /\ pcP' # pcP)
             => pcP' = "ho_unlock" /\ buffer_to_write' = current_buffer
          /\ (pcP = "ho_unlock" /\ pcP' # pcP)
             => /\ pcP' = "loop" /\ buffer_mutex' = "free"
                /\ current_buffer' # current_buffer /\ row_index' = 0]_vars

\* C20 witness: main sets the marker for one buffer while the writer is
\* inside SAVE_OUTPUT on the other.
C20_Witness ==
    pcP = "ho_set" /\ pcW = "w_write" /\ buf # current_buffer /\ nrows > 1

\* The buffer that holds sweep s when the buffers alternate from bufferA.
BufferOfSweep(s) == IF s % 2 = 1 THEN 1 ELSE 2

\* C21: the handoffs alternate bufferA, bufferB, bufferA, ... (the n-th
\* handoff marks bufferA when n is odd and bufferB when n is even), and the
\* files appear in the order in which their sweeps were collected: a file
\* written later is named after a later sweep.
C21_AlternationKeepsFileOrder ==
    /\ [][(pcP = "ho_set" /\ pcP' # pcP)
            => /\ buffer_to_write' = BufferOfSweep(sweepNo)
               /\ current_buffer = BufferOfSweep(sweepNo)]_vars
    /\ [](\A j, k \in 1..Len(files) :
             j < k => files[j].name < files[k].name)

\* main is at a statement that reads or writes exit_flag or buffer_to_write:
\* the loop test (line 803), the break test when GET_DATA returned 0
\* (line 819), the marking of the pending buffer (line 828) and the final
\* exit_flag = 1 (line 845).
MainTouchesShared ==
    \/ pcP \in {"loop", "ho_set", "sig_set"}
    \/ pcP = "check" /\ result = 0

\* The writer is at a statement that reads or writes exit_flag or
\* buffer_to_write: the wait predicate (line 678), the exit test (line 681)
\* and the taking of the pending buffer (lines 687-690).
WriterTouchesShared == pcW \in {"w_check", "w_exit", "w_take"}

\* C22: every read and every write of the pending-buffer marker and of the
\* exit flag is made by a thread that holds buffer_mutex.
C22_SharedStateUnderMutex ==
    /\ [](MainTouchesShared => buffer_mutex = "main")
    /\ [](WriterTouchesShared => buffer_mutex = "writer")
    /\ [][(exit_flag' # exit_flag \/ buffer_to_write' # buffer_to_write)
            => buffer_mutex \in {"main", "writer"}]_vars

\* C23: a step of the interrupt handler sets the exit flag to 1 and changes
\* nothing else: it prints nothing on the console, signals no condition
\* variable (the writer stays where it is), and touches neither the hardware
\* nor the buffers.
C23_HandlerOnlySetsFlag ==
    [][Handler
         => /\ exit_flag' = 1
            /\ console' = console
            /\ pcW' = pcW /\ pcP' = pcP
            /\ hw' = hw /\ heap' = heap /\ buffer' = buffer
            /\ buffer_to_write' = buffer_to_write
            /\ buffer_mutex' = buffer_mutex]_vars

\* A row of a file has all four of its text columns filled: the timestamp
\* and the filename (both from FILENAME here), the state and the frequency.
RowFilled(r) ==
    r.FILENAME # 0 /\ r.SWITCH_STATE > 0 /\ r.FREQUENCY # <<>>

\* C24: every file the writer has written holds exactly nrows rows, and
\* every one of them has a non-empty timestamp, state, frequency and
\* filename: no row is written as MAKE_DATA_ARRAY's memset left it.
C24_FilesHoldFilledRows ==
    \A k \in 1..Len(files) :
        /\ DOMAIN files[k].rows = 1..nrows
        /\ \A i \in 1..nrows : RowFilled(files[k].rows[i])

\* C24 witness: two files of more than one row have been written, one of
\* them while main was storing into the buffer being saved.
C24_Witness ==
    /\ nrows > 1 /\ Len(files) = 2
    /\ \E k \in 1..2 : files[k].torn
    /\ \A k \in 1..2 : \A i \in 1..nrows : RowFilled(files[k].rows[i])

\* The argument vector v is one main rejects: fewer than three positional
\* arguments, or a row count, start or end frequency that atoi makes <= 0.
InvalidArguments(v) ==
    \/ Len(v) < 3
    \/ \E i \in 1..3 : Atoi(v[i]) <= 0

AcqExitCodes == {0, 1} \cup UsageOutcomes

\* The statuses the calibration program can end with: filterSweep.c's main
\* returns 0 or 1, INITIALIZE_ADS exits with 0.
CalibExitCodes == {0, 1}

\* Mutant of ForegroundDone: the script does not wait for its child.
ForegroundDone_Background(running) == TRUE

\* A pipeline run in the foreground (lines 104 and 120) returns to the
\* script once its processes have terminated.
ForegroundDone(running) == ~running

\* The acquisition program's own state, which neither the script nor the
\* calibration program touches.
acqVars == <<nrows, heap, hw, exit_code, sweepVars, pcP, pcW, console,
             stamp, argv, buffer, buffer_to_write, exit_flag,
             state2_sweeps_collected, buffer_mutex, mainLocals,
             writerData, sweepNo, hist>>

\* The script with the new value of some of its fields.
OrchChanges(new) ==
    /\ sh' = new
    /\ UNCHANGED <<acqVars, cal, clk>>

\* Lines 90-104: a cycle begins, the acquisition program is started.
OrchStartAcq ==
    /\ sh.pc = "top"
    /\ sh.CYCLE < MaxCycles
    /\ OrchChanges([sh EXCEPT !.CYCLE = @ + 1, !.acq = TRUE, !.pc = "acq"])

\* The acquisition program terminates.
AcqProcessExits ==
    /\ sh.acq
    /\ \E code \in AcqExitCodes :
           OrchChanges([sh EXCEPT !.acq = FALSE, !.astat = code])

\* Lines 104-112: the pipeline has ended; its status is kept in
\* ACQ_EXIT_CODE and logged, and the script sleeps two seconds.
OrchAcqDone ==
    /\ sh.pc = "acq"
    /\ ForegroundDone(sh.acq)
    /\ OrchChanges([sh EXCEPT !.ACQ_EXIT_CODE = sh.astat, !.pc = "sleep"])

\* Lines 114-120: the calibration program is started.
OrchStartCalib ==
    /\ sh.pc = "sleep"
    /\ OrchChanges([sh EXCEPT !.calib = TRUE, !.pc = "calib"])

\* The calibration program terminates.
CalibProcessExits ==
    /\ sh.calib
    /\ \E code \in CalibExitCodes :
           OrchChanges([sh EXCEPT !.calib = FALSE, !.cstat = code])

\* Lines 120-129: the pipeline has ended; its status is kept in
\* CALIB_EXIT_CODE and logged, and the loop starts over.
OrchCalibDone ==
    /\ sh.pc = "calib"
    /\ ForegroundDone(sh.calib)
    /\ OrchChanges([sh EXCEPT !.CALIB_EXIT_CODE = sh.cstat, !.pc = "top"])

\* Line 88: INT or TERM runs the trap once the foreground pipeline, if any,
\* has ended; the script exits with 0.
OrchTrap ==
    /\ sh.pc \in {"top", "sleep"}
    /\ OrchChanges([sh EXCEPT !.pc = "exited"])

\* The script is started with nothing running; it passes no arguments to
\* its children (lines 104, 120).
OrchInit ==
    /\ Globals(0)
    /\ argv = <<>>
    /\ buffer = [b \in Buffers |-> NoBuffer]
    /\ pcP = "args"
    /\ pcW = "w_none"
    /\ heap = {}
    /\ hw = HwInit
    /\ adc = AntennaReading

OrchNext ==
    \/ OrchStartAcq
    \/ AcqProcessExits
    \/ OrchAcqDone
    \/ OrchStartCalib
    \/ CalibProcessExits
    \/ OrchCalibDone
    \/ OrchTrap

OrchSpec == OrchInit /\ [][OrchNext]_vars

\* C26: under the orchestrator script the acquisition and the calibration
\* program never run at the same time: calib is started only when the acq
\* process has terminated, and the next acq only when calib has terminated.
C26_NeverConcurrent ==
    /\ [](~(sh.acq /\ sh.calib))
    /\ [][/\ (sh'.calib /\ ~sh.calib) => (~sh.acq /\ sh.astat \in AcqExitCodes)
          /\ (sh'.acq /\ ~sh.acq) =>
                 /\ ~sh.calib
                 /\ sh.CYCLE > 0 => sh.cstat \in CalibExitCodes]_vars

\* C26 witness: a second cycle's acquisition is running, after the first
\* cycle's acquisition and calibration both ran and ended.
C26_Witness ==
    /\ sh.CYCLE = 2
    /\ sh.acq
    /\ sh.ACQ_EXIT_CODE \in AcqExitCodes
    /\ sh.CALIB_EXIT_CODE \in CalibExitCodes

\* C27: the calibration program is started in a cycle only after that
\* cycle's acquisition program has exited with code 0.
C27_CalibOnlyAfterCleanAcq ==
    [][(sh'.calib /\ ~sh.calib) => sh.ACQ_EXIT_CODE = 0]_vars

\* ------------------------------------------- the calibration program
\* main, line 406: int power_levels[] = {+5, -4}.
power_levels == <<5, -4>>

\* A row of the sweep buffer as MAKE_DATA_ARRAY leaves it: POWER_DBM is the
\* number stamped in STATE, FREQUENCY the one stamped in FREQUENCY (tenths
\* of a MHz); 0 stands for the empty string.
CalZeroRow == [POWER_DBM |-> 0, FREQUENCY |-> 0]

\* Mutant of PassComplete: the pass ends one row early.
PassComplete_OneEarly(i, n) == i >= n - 1

\* main, line 418: the collection loop ends when i < nrows is false.
PassComplete(i, n) == i >= n

\* The calibration program with the new value of some of its fields.
CalChanges(new) ==
    /\ cal' = new
    /\ UNCHANGED <<acqVars, sh, clk>>

\* Handler, lines 46-49 (installed at line 368, first thing in main).
CalHandler ==
    /\ cal.pc # "done"
    /\ CalChanges([cal EXCEPT !.exit_flag = 1])

\* main, lines 368-403: the buffer is allocated, the converters and pigpio
\* are initialised and the LO board is powered.  A failed allocation and a
\* failed gpioInitialise return 1; INITIALIZE_ADS exits with 0 when a
\* converter does not initialise (lines 325-340).
CalStartup ==
    /\ cal.pc = "start"
    /\ \E outcome \in {"nomem", "adc", "gpio", "ok"} :
           CalChanges(
               CASE outcome = "nomem" ->
                        [cal EXCEPT !.pc = "done", !.exit_code = 1]
                 [] outcome = "adc" ->
                        [cal EXCEPT !.pc = "done", !.exit_code = 0]
                 [] outcome = "gpio" ->
                        [cal EXCEPT !.pc = "done", !.exit_code = 1]
                 [] OTHER ->
                        [cal EXCEPT !.pc = "pass",
                                    !.sweep_data =
                                        [r \in 1..CAL_TOTAL_STEPS |->
                                             CalZeroRow]])

\* main, lines 408-418: the test of the pass loop; a pass takes its power
\* level and starts from FREQ_MIN.
CalPassBegin ==
    /\ cal.pc = "pass"
    /\ CalChanges(
           IF cal.sweep < 2
           THEN [cal EXCEPT !.power_dbm = power_levels[cal.sweep + 1],
                            !.LO_FREQ = CAL_FREQ_MIN,
                            !.i = 0,
                            !.pc = IF PassComplete(0, CAL_TOTAL_STEPS)
                                   THEN "save" ELSE "get"]
           ELSE [cal EXCEPT !.pc = "cleanup"])

\* The frequency GET_DATA measures at, lines 101-111: one step above the
\* tracked one unless FREQ_MAX is reached.
CalAdvance(f) == IF f < CAL_FREQ_MAX THEN f + CAL_FREQ_STEP ELSE f

\* GET_DATA, lines 89-146: the frequency is advanced, the converters are
\* read and row i is stamped with the power level and the frequency.  When
\* GET_TIME returned NULL (line 81) the strncpy of line 127 reads through a
\* null pointer and the process dies of SIGSEGV.
CalGetData ==
    /\ cal.pc = "get"
    /\ LET f == CalAdvance(cal.LO_FREQ)
       IN \E MEASURED_TIME \in {"time", "NULL"} :
              CalChanges(
                  IF MEASURED_TIME = "NULL"
                  THEN [cal EXCEPT !.LO_FREQ = f, !.exit_code = 128 + 11,
                                   !.pc = "done"]
                  ELSE [cal EXCEPT
                           !.LO_FREQ = f,
                           !.sweep_data[cal.i + 1] =
                               [POWER_DBM |-> cal.power_dbm, FREQUENCY |-> f],
                           !.pc = "check"])

\* main, lines 418-425: after each row the exit flag is tested; set, the
\* program goes to cleanup, else the loop goes on to the next row.
CalCheck ==
    /\ cal.pc = "check"
    /\ CalChanges(
           IF cal.exit_flag # 0
           THEN [cal EXCEPT !.pc = "cleanup"]
           ELSE [cal EXCEPT !.i = @ + 1,
                            !.pc = IF PassComplete(cal.i + 1, CAL_TOTAL_STEPS)
                                   THEN "save" ELSE "get"])

\* main, lines 427-435: SAVE_OUTPUT writes the buffer to a file named after
\* the power level; its status is only reported.
CalSave ==
    /\ cal.pc = "save"
    /\ \E save_status \in {0, 1} :
           CalChanges([cal EXCEPT
               !.saves = Append(@, [power_dbm |-> cal.power_dbm,
                                    data |-> cal.sweep_data,
                                    rows |-> cal.i,
                                    status |-> save_status]),
               !.pc = "reset"])

\* main, lines 437-449 and the loop's sweep++: between the passes the
\* sweep is reset.
CalReset ==
    /\ cal.pc = "reset"
    /\ CalChanges([cal EXCEPT !.sweep = @ + 1, !.pc = "pass"])

\* main, lines 455-479: the buffer is freed, the hardware shut down, and
\* main returns 0.
CalCleanup ==
    /\ cal.pc = "cleanup"
    /\ CalChanges([cal EXCEPT !.sweep_data = <<>>, !.exit_code = 0,
                              !.pc = "done"])

\* The calibration program is started on its own.
CalibInit == OrchInit

CalibNext ==
    \/ CalHandler
    \/ CalStartup
    \/ CalPassBegin
    \/ CalGetData
    \/ CalCheck
    \/ CalSave
    \/ CalReset
    \/ CalCleanup

CalibSpec == CalibInit /\ [][CalibNext]_vars

\* C28: the calibration program saves once per completed pass: the passes
\* run in the order +5 dBm, -4 dBm; SAVE_OUTPUT is called once after a pass
\* that collected all TOTAL_STEPS rows; once the exit flag is observed
\* nothing more is saved and no pass started; so at most two files are
\* written and none for a partial pass.
C28_OneFilePerCompletedPass ==
    /\ [](/\ Len(cal.saves) <= 2
          /\ Len(cal.saves) = cal.sweep + (IF cal.pc = "reset" THEN 1 ELSE 0)
          /\ \A k \in 1..Len(cal.saves) :
                 /\ cal.saves[k].power_dbm = power_levels[k]
                 /\ cal.saves[k].rows = CAL_TOTAL_STEPS
                 /\ \A r \in 1..CAL_TOTAL_STEPS :
                        cal.saves[k].data[r].POWER_DBM = power_levels[k]
          /\ (cal.pc = "cleanup" /\ cal.sweep < 2) => cal.exit_flag # 0
          /\ (cal.pc = "cleanup" /\ cal.exit_flag = 0) => Len(cal.saves) = 2)
    /\ [][/\ cal.pc \in {"cleanup", "done"} =>
                 (cal'.saves = cal.saves /\ cal'.pc \in {"cleanup", "done"})
          /\ (cal.pc = "check" /\ cal.exit_flag # 0) => cal'.pc = "cleanup"
          /\ cal'.saves # cal.saves =>
                 /\ cal.i = CAL_TOTAL_STEPS
                 /\ Len(cal'.saves) = Len(cal.saves) + 1]_vars

\* C28 witness: an uninterrupted run has ended with both passes saved, the
\* +5 dBm file first.
C28_Witness ==
    /\ cal.pc = "done"
    /\ cal.exit_flag = 0
    /\ Len(cal.saves) = 2
    /\ \A k \in 1..2 : cal.saves[k].status = 0

\* The row the acquisition loop is working on.
CurrentRow == buffer[current_buffer].data[row_index + 1]

\* C29: an iteration of GET_DATA that succeeds decodes the switch state,
\* then reads the front-ends into the row, then stamps the row, then
\* advances the frequency: the FREQUENCY stamped is the frequency tracked
\* while the row was read (the one before the advance), and the STATE
\* stamped is the state decoded at the start of the iteration.
C29_IterationOrder ==
    [][/\ /\ pcP = "gd_state"
          /\ pcP' # pcP
          => /\ state' = READ_SWITCH_STATE(adc)
             /\ pcP' \in {"gd_time", "check"}
             /\ LO_FREQ' = LO_FREQ
       /\ /\ pcP = "gd_time"
          /\ pcP' # pcP
          => /\ pcP' \in {"gd_collect", "check"}
             /\ pcP' = "check" => result' # 0
             /\ state' = state
             /\ LO_FREQ' = LO_FREQ
       /\ /\ pcP = "gd_collect"
          /\ pcP' # pcP
          => /\ pcP' = "gd_store"
             /\ CurrentRow'.ADHAT = sweepNo
             /\ state' = state
             /\ LO_FREQ' = LO_FREQ
       /\ /\ pcP = "gd_store"
          /\ pcP' # pcP
          => /\ pcP' = "check"
             /\ result' = 0
             /\ CurrentRow.ADHAT = sweepNo
             /\ buffer'[current_buffer].data[row_index + 1].FREQUENCY =
                    FormatF(LO_FREQ)
             /\ stamp' = FormatD(state)
             /\ buffer'[current_buffer].data[row_index + 1].SWITCH_STATE =
                    Len(FormatD(state))
             /\ LO_FREQ' = NextFrequency(LO_FREQ)
             /\ state' = state]_vars

\* C29 witness: an iteration has just succeeded with the oscillator away
\* from FREQ_MIN: the row carries the frequency from before the advance and
\* the state decoded for it.
C29_Witness ==
    /\ pcP = "check"
    /\ result = 0
    /\ LO_FREQ = FREQ_MIN + 2 * FREQ_STEP
    /\ CurrentRow.FREQUENCY = FormatF(FREQ_MIN + FREQ_STEP)
    /\ state = TRANSITION_STATE
    /\ stamp = FormatD(TRANSITION_STATE)

\* C30: with nrows = TOTAL_STEPS one buffer holds exactly one sweep: row 0
\* of every buffer handed to the writer is stamped FREQ_MIN, and the
\* tracked frequency is back at FREQ_MIN whenever a buffer is begun.
C30_BufferIsOneSweep ==
    /\ buffer_to_write \in Buffers /\ pcP = "ho_unlock" =>
           buffer[buffer_to_write].data[1].FREQUENCY = FormatF(FREQ_MIN)
    /\ pcP = "loop" /\ row_index = 0 => LO_FREQ = FREQ_MIN

\* C31: in each calibration pass row i (from 0) is stamped with
\* FREQ_MIN + i * FREQ_STEP: 900.0 MHz in the first row, one step more in
\* each later row, 960.0 MHz in the last of the TOTAL_STEPS rows.
C31_CalibrationRowFrequencies ==
    /\ cal.pc = "check" =>
           cal.sweep_data[cal.i + 1].FREQUENCY =
               CAL_FREQ_MIN + cal.i * CAL_FREQ_STEP
    /\ \A k \in 1..Len(cal.saves) :
           \A r \in 1..CAL_TOTAL_STEPS :
               cal.saves[k].data[r].FREQUENCY =
                   CAL_FREQ_MIN + (r - 1) * CAL_FREQ_STEP

\* C32: the handler that sets the exit flag is installed only after the
\* GPIO library has been initialised: as long as gpioInitialise has not
\* returned, a SIGINT does not reach Handler.
C32_HandlerInstalledAfterGpio ==
    pcP \in {"alloc", "init_ads", "gpio_init"} => ~ENABLED Handler

\* ------------------------------------------- a writer that keeps up
\* Mutant of WriterBackWaiting: a handoff may come at any time.
WriterBackWaiting_Anytime(pw, btw) == TRUE

\* writer_thread_func, lines 675-680: the writer has returned from
\* SAVE_OUTPUT, holds no buffer and is waiting (or about to wait) for the
\* next one.
WriterBackWaiting(pw, btw) ==
    pw \in {"w_lock", "w_check", "w_wait", "w_woken"} /\ btw = 0

\* main, line 827, under the timing the design relies on: the handoff
\* begins when the writer is done with the buffer before.
TimelyHandoffLock == WriterBackWaiting(pcW, buffer_to_write) /\ HandoffLock

\* The program without interrupts and with a writer whose write takes less
\* than one buffer fill.
TimelyNext ==
    \/ SwitchMoves
    \/ AllocateBuffers \/ InitializeAds \/ GpioInitialise \/ PowerOnLo
    \/ CreateWriter
    \/ LoopTest \/ ReadSystemVoltage \/ GetDataState \/ GetTime
    \/ CollectAdcData \/ StoreMetadata \/ CheckResult
    \/ TimelyHandoffLock \/ HandoffSet \/ HandoffUnlock
    \/ ExitLock \/ ExitSignal \/ ExitUnlock \/ Join
    \/ FreeBuffers \/ ResetLines \/ PowerDownLo \/ GpioTerminate
    \/ CloseGpio \/ MainReturn
    \/ WriterLock \/ WriterCheck \/ SpuriousWakeup \/ WriterWake
    \/ WriterExitTest \/ WriterTake
    \/ SaveOpen \/ SaveWrite

TimelySpec == Init /\ [][TimelyNext]_vars

\* The writer holds buffer b: taken from the marker and not yet returned
\* from SAVE_OUTPUT.
WriterHolds(b) == pcW \in {"w_save", "w_write"} /\ buf = b

\* C33: when the writer is done with each write before the next handoff
\* and the exit flag is not set, no handoff is lost, the writer takes each
\* handed-off buffer once and passes it to SAVE_OUTPUT, the files appear in
\* handoff order, each holding the sweep it is named after, and main never
\* stores into a buffer the writer holds.
C33_TimelyWriterWritesEachOnce ==
    /\ [](exit_flag = 0 =>
            /\ \A b \in Buffers : ~(MainStoring(b) /\ WriterHolds(b))
            /\ \A k \in 1..Len(files) :
                   /\ ~files[k].torn
                   /\ files[k].name \in hist.handed
                   /\ \A i \in 1..nrows :
                          files[k].rows[i].FILENAME = files[k].name
            /\ \A j, k \in 1..Len(files) :
                   j < k => files[j].name < files[k].name
            /\ \A b \in Buffers : WriterHolds(b) =>
                   /\ buffer_to_write # b
                   /\ buffer[b].data[1].FILENAME \in hist.handed
                   /\ FilesNamed(buffer[b].data[1].FILENAME) = {})
    /\ [][exit_flag = 0 =>
            /\ (buffer_to_write' # buffer_to_write /\ buffer_to_write' # 0)
                   => buffer_to_write = 0
            /\ (buffer_to_write' = 0 /\ buffer_to_write # 0)
                   => (pcW' = "w_save" /\ buf' = buffer_to_write)
            /\ (pcW = "w_save" /\ pcW' # pcW)
                   => \/ pcW' = "w_write" /\ buf' = buf
                      \/ pcW' = "w_lock" /\ status' # 0
            /\ Len(files') > Len(files)
                   => /\ pcW = "w_write"
                      /\ files'[Len(files')].name =
                             buffer[buf].data[1].FILENAME]_vars

\* C33 witness: three sweeps were handed off and written, in order, while
\* the exit flag was never set.
C33_Witness ==
    /\ exit_flag = 0
    /\ nrows > 1
    /\ hist.handed = {1, 2, 3}
    /\ Len(files) = 3
    /\ \A k \in 1..3 : files[k].name = k /\ ~files[k].torn

\* C34: with an oscillator that moves one step on every falling edge of
\* the increment line and back to the start on every falling edge of the
\* reset line, the tracked frequency is the oscillator's frequency at every
\* ADC read of the acquisition loop, whenever GET_DATA is entered and left,
\* and across every wraparound; between two calls of
\* INCREMENT_LO_FREQUENCY both lines are at their idle high level.
C34_TrackedIsActualFrequency ==
    pcP \in {"loop", "sysv", "gd_state", "gd_time", "gd_collect", "gd_store",
             "check", "ho_lock", "ho_set", "ho_unlock"} =>
        /\ hw.osc = LO_FREQ
        /\ hw.INCREMENT = 1
        /\ hw.RESET = 1

\* C34 witness: a row is being read just after the first wraparound: the
\* hundredth call reset the oscillator and the tracked frequency together.
C34_Witness ==
    /\ pcP = "gd_collect"
    /\ hist.calls = 100
    /\ LO_FREQ = FREQ_MIN
    /\ hw.osc = FREQ_MIN

\* main is inside the loop body on its way through GET_DATA (lines 809-816
\* and GET_DATA itself).
InGetData == pcP \in {"sysv", "gd_state", "gd_time", "gd_collect", "gd_store"}

\* C35: at every call of GET_DATA in the acquisition loop
\* 0 <= row_index < nrows and the active buffer is one of the two allocated
\* buffers of nrows rows, so no iteration stores outside the active buffer
\* and GET_DATA's index-range return is never taken.
C35_RowIndexInRange ==
    /\ [](InGetData =>
            /\ 0 <= row_index /\ row_index < nrows
            /\ current_buffer \in Buffers
            /\ current_buffer \in heap
            /\ DOMAIN buffer[current_buffer].data = 1..nrows)
    /\ [][(pcP = "gd_state" /\ pcP' # pcP) => pcP' = "gd_time"]_vars

\* C35 witness: GET_DATA is called for the last row of bufferB.
C35_Witness ==
    /\ pcP = "gd_state"
    /\ nrows > 1
    /\ row_index = nrows - 1
    /\ current_buffer = 2

\* C36: whenever main is executing GET_DATA on a buffer, the pending
\* marker is 0 or names the other buffer, never the one being filled; the
\* marker is always 0, 1 or 2.
C36_MarkerNeverActiveBuffer ==
    /\ buffer_to_write \in {0, 1, 2}
    /\ InGetData =>
           \/ buffer_to_write = 0
           \/ buffer_to_write \in Buffers \ {current_buffer}

\* C36 witness: main reads a row into bufferA while bufferB is still marked
\* pending.
C36_Witness ==
    /\ pcP = "gd_collect"
    /\ current_buffer = 1
    /\ buffer_to_write = 2

\* ------------------------------ the sweep under different range arguments
\* Start and end frequency arguments explored: the documented ones and
\* others that atoi makes positive.
FrequencyArguments ==
    {<<"6", "4", "8">>, <<"8", "5", "0">>, <<"2">>, <<"2", "0">>}

\* main on entry (line 725), started with the row count of the sweep
\* configuration and any of the start and end frequencies.
RangeArgsInit ==
    /\ Globals(0)
    /\ \E s \in FrequencyArguments, e \in FrequencyArguments :
           argv = <<Decimal(TOTAL_STEPS), s, e>>
    /\ buffer = [b \in Buffers |-> NoBuffer]
    /\ pcP = "args"
    /\ pcW = "w_none"
    /\ heap = {}
    /\ hw = HwInit
    /\ adc = AntennaReading

\* main from its entry through the acquisition loop, in the schedule of
\* SweepNext: no interrupt, the switch on the antenna, the writer not yet
\* run.
RangeArgsNext ==
    \/ ParseArguments
    \/ AllocateBuffers \/ InitializeAds \/ GpioInitialise \/ PowerOnLo
    \/ CreateWriter
    \/ SweepNext

RangeArgsSpec == RangeArgsInit /\ [][RangeArgsNext]_vars

\* The tracked frequency after n calls of INCREMENT_LO_FREQUENCY in the
\* run started as documented (./bin/acq 101 648 850).
FrequencyAfter(n) == FREQ_MIN + FREQ_STEP * (n % SweepLength)

FormatTime(ticks) == ticks \div TicksPerSecond

\* A timed run with the new value of some of the clock's fields.
ClkChanges(new) ==
    /\ clk' = new
    /\ UNCHANGED <<acqVars, sh, cal>>

\* Time passes.
ClockTick ==
    /\ clk.now < MaxTicks
    /\ ClkChanges([clk EXCEPT !.now = @ + 1])

\* main, lines 803-834, and GET_DATA, lines 363-381: an iteration stamps
\* its row with GET_TIME's timestamp; the timestamp of row 0 names the
\* buffer's file (SAVE_OUTPUT, lines 417-421); the full buffer is handed
\* off and the next one begun.  How long an iteration takes is up to the
\* hardware: the code waits 500 us and for the converters.
TimedIteration ==
    /\ Len(clk.names) < MaxSweeps
    /\ LET timestamp == FormatTime(clk.now)
           first == IF clk.row_index = 0 THEN timestamp ELSE clk.first
       IN ClkChanges(
              IF BufferFull(clk.row_index + 1, nrows)
              THEN [clk EXCEPT !.first = first,
                               !.names = Append(@, first),
                               !.row_index = 0]
              ELSE [clk EXCEPT !.first = first, !.row_index = @ + 1])

\* The acquisition loop is entered with any of the row counts.
ClockInit ==
    /\ \E n \in 1..MaxRows : Globals(n) /\ argv = Invocation(n)
    /\ buffer = [b \in Buffers |-> NoBuffer]
    /\ pcP = "loop"
    /\ pcW = "w_lock"
    /\ heap = Buffers
    /\ hw = HwRunning
    /\ adc = AntennaReading

ClockNext == ClockTick \/ TimedIteration

ClockSpec == ClockInit /\ [][ClockNext]_vars

\* C38: within one run two handed-off buffers are never written to the
\* same path: the file names taken from the first rows' timestamps are
\* pairwise distinct, for every row count.
C38_FileNamesDistinct ==
    \A j, k \in 1..Len(clk.names) :
        j # k => clk.names[j] # clk.names[k]

====
